---- MODULE Spec2Model ----
(***************************************************************************)
(* Model of swear.py: PersianSwearWordRemover.                             *)
(*                                                                         *)
(* A Python str is a sequence of one-character strings.  A value parsed    *)
(* from the JSON lexicon file is a tagged record, because the code never   *)
(* checks the type of what data.get("swear_words", []) hands back.         *)
(* A call that raises is a record with raised = TRUE.                      *)
(***************************************************************************)
EXTENDS Integers, Sequences, FiniteSets, TLC

VARIABLES file, load_error, swear_words, calls, op, arg, normalized, renormalized,
          verdict, result

vars == <<file, load_error, swear_words, calls, op, arg, normalized, renormalized,
          verdict, result>>

(***************************************************************************)
(* Bounds of the model.                                                    *)
(***************************************************************************)
MaxTextLen == 5
MaxDocLen == 3
MaxTokenLen == 2
MaxCallDocLen == 2
MaxCalls == 2
MaxLexLen == 2

(***************************************************************************)
(* Characters.  SP and NL are both whitespace for str.split(); NL is the   *)
(* one character the regex metacharacter '.' does not match.               *)
(***************************************************************************)
SP == " "
NL == "\n"
Letters == {"a", "b"}
Whitespace == {SP, NL}
Chars == Letters \cup Whitespace

StringsUpTo(S, n) == UNION {[1..k -> S] : k \in 0..n}

Texts == StringsUpTo(Chars, MaxTextLen)
Documents == StringsUpTo(Chars, MaxDocLen)
Tokens == StringsUpTo(Chars, MaxTokenLen)
CallDocuments == StringsUpTo(Chars, MaxCallDocLen)

(***************************************************************************)
(* normalize_text: re.sub(r'(.)\1{2,}', r'\1', text)                        *)
(***************************************************************************)
\* '.' without re.DOTALL matches any character except a newline
Dot(c) == c # NL

\* the greedy \1{2,}: index of the last character of the run starting at i
RunEnd(text, i) ==
    CHOOSE j \in i..Len(text) :
        /\ \A k \in i..j : text[k] = text[i]
        /\ (j = Len(text) \/ text[j + 1] # text[i])

\* the same scan with the quantifier {2} in place of {2,}: a match takes
\* exactly three characters
RECURSIVE re_sub_exactly3(_, _)
re_sub_exactly3(text, i) ==
    IF i > Len(text) THEN <<>>
    ELSE IF Dot(text[i]) /\ RunEnd(text, i) - i + 1 >= 3
         THEN <<text[i]>> \o re_sub_exactly3(text, i + 3)
         ELSE <<text[i]>> \o re_sub_exactly3(text, i + 1)

\* re.sub scans left to right; at i the pattern matches when text[i] is
\* matched by '.' and is followed by at least two more copies of itself; the
\* match is replaced by group 1 and the scan resumes after the match
RECURSIVE re_sub(_, _)
re_sub(text, i) ==
    IF i > Len(text) THEN <<>>
    ELSE IF Dot(text[i]) /\ RunEnd(text, i) - i + 1 >= 3
         THEN <<text[i]>> \o re_sub(text, RunEnd(text, i) + 1)
         ELSE <<text[i]>> \o re_sub(text, i + 1)

normalize_text(text) == re_sub(text, 1)

(***************************************************************************)
(* str.split(), ' '.join(...) and the substring test `a in b`.             *)
(***************************************************************************)
\* index of the last character of the maximal whitespace-free piece at i
RECURSIVE TokenEnd(_, _)
TokenEnd(text, i) ==
    IF i < Len(text) /\ text[i + 1] \notin Whitespace
    THEN TokenEnd(text, i + 1)
    ELSE i

RECURSIVE split_from(_, _)
split_from(text, i) ==
    IF i > Len(text) THEN <<>>
    ELSE IF text[i] \in Whitespace THEN split_from(text, i + 1)
    ELSE <<SubSeq(text, i, TokenEnd(text, i))>>
             \o split_from(text, TokenEnd(text, i) + 1)

\* text.split(): the maximal whitespace-free pieces, in order
split(text) == split_from(text, 1)

\* a join that writes the separator twice
RECURSIVE join_twice(_, _)
join_twice(sep, parts) ==
    IF parts = <<>> THEN <<>>
    ELSE IF Len(parts) = 1 THEN parts[1]
    ELSE parts[1] \o sep \o sep \o join_twice(sep, Tail(parts))

\* ' '.join(cleaned_tokens)
RECURSIVE join(_, _)
join(sep, parts) ==
    IF parts = <<>> THEN <<>>
    ELSE IF Len(parts) = 1 THEN parts[1]
    ELSE parts[1] \o sep \o join(sep, Tail(parts))

\* sw_word in normalized_token, both str
Contains(haystack, needle) ==
    \E i \in 1..(Len(haystack) - Len(needle) + 1) :
        SubSeq(haystack, i, i + Len(needle) - 1) = needle

(***************************************************************************)
(* Values parsed from the lexicon file.                                    *)
(***************************************************************************)
\* the strings a lexicon file holds: the empty string, a letter, a word, and a
\* phrase of two words
Fragments == {<<>>, <<"a">>, <<"a", "b">>, <<"a", SP, "b">>}

JStr(s) == [tag |-> "str", str |-> s]
JNum == [tag |-> "num", str |-> <<>>]
JNull == [tag |-> "null", str |-> <<>>]

\* what a JSON list may hold: strings, and entries that are not strings
Entries == {JStr(s) : s \in Fragments} \cup {JNum, JNull}

ValList(items) == [tag |-> "list", str |-> <<>>, items |-> items]
ValStr(s) == [tag |-> "str", str |-> s, items |-> <<>>]
ValNum == [tag |-> "num", str |-> <<>>, items |-> <<>>]
ValNull == [tag |-> "null", str |-> <<>>, items |-> <<>>]

\* the default of data.get("swear_words", []) and of the except branch
EmptyList == ValList(<<>>)

Lists == {ValList(items) : items \in StringsUpTo(Entries, MaxLexLen)}
FieldValues == Lists \cup {ValStr(s) : s \in Fragments} \cup {ValNum, ValNull}

\* the lexicon file as open() and json.load() find it
NoFile(kind) == [kind |-> kind, top |-> "none", has_field |-> FALSE, value |-> ValNull]
FailingFiles == {NoFile(k) : k \in {"missing", "unreadable", "bad_encoding", "malformed"}}
ArrayFile == [kind |-> "json", top |-> "array", has_field |-> FALSE, value |-> ValNull]
ObjectWithoutField == [kind |-> "json", top |-> "object", has_field |-> FALSE, value |-> ValNull]
ObjectFiles == {[kind |-> "json", top |-> "object", has_field |-> TRUE, value |-> v] : v \in FieldValues}
Files == FailingFiles \cup {ArrayFile, ObjectWithoutField} \cup ObjectFiles

(***************************************************************************)
(* load_swear_words                                                        *)
(***************************************************************************)
\* the body of the try block: the exception it raises, or the value returned
try_body(f) ==
    IF f.kind = "missing" THEN [exc |-> "FileNotFoundError", value |-> ValNull]
    ELSE IF f.kind = "unreadable" THEN [exc |-> "PermissionError", value |-> ValNull]
    ELSE IF f.kind = "bad_encoding" THEN [exc |-> "UnicodeDecodeError", value |-> ValNull]
    ELSE IF f.kind = "malformed" THEN [exc |-> "JSONDecodeError", value |-> ValNull]
    ELSE IF f.top # "object" THEN [exc |-> "AttributeError", value |-> ValNull]
    ELSE IF f.has_field THEN [exc |-> "none", value |-> f.value]
    ELSE [exc |-> "none", value |-> EmptyList]

\* a handler that names FileNotFoundError only
OnlyFileNotFound(exc) == exc = "FileNotFoundError"

\* except Exception: every exception the try block raises is an Exception
ExceptException(exc) ==
    exc \in {"FileNotFoundError", "PermissionError", "UnicodeDecodeError",
             "JSONDecodeError", "AttributeError"}

load_swear_words(f) ==
    LET r == try_body(f) IN
    IF r.exc = "none" THEN [raised |-> "none", value |-> r.value]
    ELSE IF ExceptException(r.exc) THEN [raised |-> "none", value |-> EmptyList]
    ELSE [raised |-> r.exc, value |-> ValNull]

(***************************************************************************)
(* is_swear_word                                                           *)
(***************************************************************************)
Returned(b) == [raised |-> FALSE, value |-> b]
TypeError == [raised |-> TRUE, value |-> FALSE]

\* `sw_word in normalized_token` for one list entry: a str operand is a
\* substring test, any other operand raises TypeError
EntryIn(entry, token) ==
    IF entry.tag = "str" THEN Returned(Contains(token, entry.str)) ELSE TypeError

\* any(...) over a list: entries in order, stops at the first True
RECURSIVE any_in(_, _, _)
any_in(items, i, token) ==
    IF i > Len(items) THEN Returned(FALSE)
    ELSE LET r == EntryIn(items[i], token) IN
         IF r.raised \/ r.value THEN r ELSE any_in(items, i + 1, token)

\* all(...) in place of any(...)
RECURSIVE all_in(_, _, _)
all_in(items, i, token) ==
    IF i > Len(items) THEN Returned(TRUE)
    ELSE LET r == EntryIn(items[i], token) IN
         IF r.raised \/ ~r.value THEN r ELSE all_in(items, i + 1, token)

is_swear_word_all(lexicon, token) ==
    LET normalized_token == normalize_text(token) IN
    IF lexicon.tag = "list" THEN all_in(lexicon.items, 1, normalized_token)
    ELSE IF lexicon.tag = "str"
         THEN Returned(\A i \in 1..Len(lexicon.str) :
                          Contains(normalized_token, <<lexicon.str[i]>>))
    ELSE TypeError

\* iterating a list yields its entries, iterating a str yields its
\* characters, and None or a number is not iterable
is_swear_word(lexicon, token) ==
    LET normalized_token == normalize_text(token) IN
    IF lexicon.tag = "list" THEN any_in(lexicon.items, 1, normalized_token)
    ELSE IF lexicon.tag = "str"
         THEN Returned(\E i \in 1..Len(lexicon.str) :
                          Contains(normalized_token, <<lexicon.str[i]>>))
    ELSE TypeError

(***************************************************************************)
(* remove_persian_swear_words                                              *)
(***************************************************************************)
\* a percentage is kept exact, as the fraction num / den
Percent(num, den) == [num |-> num, den |-> den]

\* the same division without the `if tokens else 0` guard
swear_word_percentage_unguarded(detected_swear_words, tokens) ==
    Percent(Len(detected_swear_words) * 100, Len(tokens))

\* (len(detected_swear_words) / len(tokens)) * 100 if tokens else 0
swear_word_percentage(detected_swear_words, tokens) ==
    IF tokens # <<>>
    THEN Percent(Len(detected_swear_words) * 100, Len(tokens))
    ELSE Percent(0, 1)

Raised ==
    [raised |-> TRUE, cleaned_text |-> <<>>, detected_swear_words |-> <<>>,
     swear_word_percentage |-> Percent(0, 1)]

\* the loop with the else branch lost: a detected token is kept as well
RECURSIVE for_token_no_else(_, _, _, _, _)
for_token_no_else(lexicon, tokens, i, cleaned_tokens, detected_swear_words) ==
    IF i > Len(tokens)
    THEN [raised |-> FALSE, cleaned_tokens |-> cleaned_tokens,
          detected_swear_words |-> detected_swear_words]
    ELSE LET r == is_swear_word(lexicon, tokens[i]) IN
         IF r.raised
         THEN [raised |-> TRUE, cleaned_tokens |-> <<>>, detected_swear_words |-> <<>>]
         ELSE IF r.value
         THEN for_token_no_else(lexicon, tokens, i + 1, Append(cleaned_tokens, tokens[i]),
                                Append(detected_swear_words, tokens[i]))
         ELSE for_token_no_else(lexicon, tokens, i + 1, Append(cleaned_tokens, tokens[i]),
                                detected_swear_words)

\* for token in tokens: the state of the two lists after the loop, or the
\* exception that is_swear_word raised on the way
RECURSIVE for_token(_, _, _, _, _)
for_token(lexicon, tokens, i, cleaned_tokens, detected_swear_words) ==
    IF i > Len(tokens)
    THEN [raised |-> FALSE, cleaned_tokens |-> cleaned_tokens,
          detected_swear_words |-> detected_swear_words]
    ELSE LET r == is_swear_word(lexicon, tokens[i]) IN
         IF r.raised
         THEN [raised |-> TRUE, cleaned_tokens |-> <<>>, detected_swear_words |-> <<>>]
         ELSE IF r.value
         THEN for_token(lexicon, tokens, i + 1, cleaned_tokens,
                        Append(detected_swear_words, tokens[i]))
         ELSE for_token(lexicon, tokens, i + 1, Append(cleaned_tokens, tokens[i]),
                        detected_swear_words)

remove_persian_swear_words(lexicon, text) ==
    LET normalized_text == normalize_text(text)
        tokens == split(normalized_text)
        loop == for_token(lexicon, tokens, 1, <<>>, <<>>)
    IN  IF loop.raised THEN Raised
        ELSE [raised |-> FALSE,
              cleaned_text |-> join(<<SP>>, loop.cleaned_tokens),
              detected_swear_words |-> loop.detected_swear_words,
              swear_word_percentage |->
                  swear_word_percentage(loop.detected_swear_words, tokens)]

(***************************************************************************)
(* The instance and its calls.                                             *)
(***************************************************************************)
NoVerdict == Returned(FALSE)
NoResult ==
    [raised |-> FALSE, cleaned_text |-> <<>>, detected_swear_words |-> <<>>,
     swear_word_percentage |-> Percent(0, 1)]

\* __init__: self.swear_words = self.load_swear_words(swear_file); an
\* exception out of load_swear_words leaves no instance to call
Construct(f) ==
    /\ file = f
    /\ load_error = load_swear_words(f).raised
    /\ swear_words = load_swear_words(f).value
    /\ calls = 0
    /\ op = "init"
    /\ arg = <<>>
    /\ normalized = <<>>
    /\ renormalized = <<>>
    /\ verdict = NoVerdict
    /\ result = NoResult

Init == \E f \in Files : Construct(f)

is_swear_word_call(token) ==
    /\ load_error = "none"
    /\ op' = "is_swear_word"
    /\ arg' = token
    /\ verdict' = is_swear_word(swear_words, token)
    /\ calls' = calls + 1
    /\ UNCHANGED <<file, load_error, swear_words, normalized, renormalized, result>>

\* a call that also drops from the list the entries it matched
remove_call_consuming(text) ==
    /\ load_error = "none"
    /\ op' = "remove_persian_swear_words"
    /\ arg' = text
    /\ result' = remove_persian_swear_words(swear_words, text)
    /\ swear_words' =
           IF swear_words.tag = "list" /\ ~result'.raised
              /\ result'.detected_swear_words # <<>>
           THEN ValList(Tail(swear_words.items))
           ELSE swear_words
    /\ calls' = calls + 1
    /\ UNCHANGED <<file, load_error, normalized, renormalized, verdict>>

remove_persian_swear_words_call(text) ==
    /\ load_error = "none"
    /\ op' = "remove_persian_swear_words"
    /\ arg' = text
    /\ result' = remove_persian_swear_words(swear_words, text)
    /\ calls' = calls + 1
    /\ UNCHANGED <<file, load_error, swear_words, normalized, renormalized, verdict>>

\* one call on a freshly constructed instance
FirstIsSwearWord == op = "init" /\ \E token \in Tokens : is_swear_word_call(token)
FirstRemove == op = "init" /\ \E text \in Documents : remove_persian_swear_words_call(text)

Next == FirstIsSwearWord \/ FirstRemove

Spec == Init /\ [][Next]_vars

\* up to MaxCalls calls in a row on one instance
NextRemove ==
    /\ calls < MaxCalls
    /\ \E text \in CallDocuments : remove_persian_swear_words_call(text)

SpecCalls == Init /\ [][NextRemove]_vars

(***************************************************************************)
(* normalize_text on its own: a text, its normal form, and the normal form *)
(* of that.                                                                *)
(***************************************************************************)
InitNormalize ==
    /\ file = NoFile("missing")
    /\ load_error = "none"
    /\ swear_words = EmptyList
    /\ calls = 0
    /\ op = "init"
    /\ arg \in Texts
    /\ normalized = <<>>
    /\ renormalized = <<>>
    /\ verdict = NoVerdict
    /\ result = NoResult

normalize_text_call ==
    /\ op = "init"
    /\ op' = "normalize_text"
    /\ normalized' = normalize_text(arg)
    /\ UNCHANGED <<file, load_error, swear_words, calls, arg, renormalized, verdict, result>>

\* the result of the first call passed in again
normalize_text_again ==
    /\ op = "normalize_text"
    /\ op' = "normalize_text_again"
    /\ renormalized' = normalize_text(normalized)
    /\ UNCHANGED <<file, load_error, swear_words, calls, arg, normalized, verdict, result>>

NextNormalize == normalize_text_call \/ normalize_text_again

SpecNormalize == InitNormalize /\ [][NextNormalize]_vars

(***************************************************************************)
(* Properties.                                                             *)
(***************************************************************************)
Rep(c, n) == [i \in 1..n |-> c]

\* text has a run of at least three identical characters
HasLongRun(text) ==
    \E i \in 1..(Len(text) - 2) : text[i] = text[i + 1] /\ text[i] = text[i + 2]

\* the elements of seq at the indices in S, in order
RECURSIVE Pick(_, _, _)
Pick(seq, S, i) ==
    IF i > Len(seq) THEN <<>>
    ELSE IF i \in S THEN <<seq[i]>> \o Pick(seq, S, i + 1)
    ELSE Pick(seq, S, i + 1)

\* the lexicon of the data model: a list whose entries are all strings
IsLexicon(lexicon) ==
    /\ lexicon.tag = "list"
    /\ \A i \in 1..Len(lexicon.items) : lexicon.items[i].tag = "str"

Removed == op = "remove_persian_swear_words"

\* the tokens of the document of the last call
DocTokens == split(normalize_text(arg))

\* C1: normalize_text is idempotent: normalizing the result of normalize_text
\* again gives that same result, for every text, whitespace and newlines
\* included.
C1_Idempotent == op = "normalize_text_again" => renormalized = normalized

\* a text with a newline in it that the first call shortened
C1_Witness ==
    /\ op = "normalize_text_again"
    /\ normalized # arg
    /\ \E i \in 1..Len(arg) : arg[i] = NL

\* C2: for every character c, newline included, every n >= 3, every s not
\* ending with c and s2 not starting with c, normalize_text(s + c*n + s2) is
\* normalize_text(s + c + s2); and a text whose runs are all shorter than three
\* is returned as it is.
C2_RepetitionCollapse ==
    op = "normalize_text" =>
        /\ \A c \in Chars : \A n \in 3..Len(arg) : \A k \in 0..(Len(arg) - n) :
               LET s == SubSeq(arg, 1, k)
                   s2 == SubSeq(arg, k + n + 1, Len(arg))
               IN  (/\ SubSeq(arg, k + 1, k + n) = Rep(c, n)
                    /\ (s = <<>> \/ s[Len(s)] # c)
                    /\ (s2 = <<>> \/ s2[1] # c))
                   => normalized = normalize_text(s \o <<c>> \o s2)
        /\ (~HasLongRun(arg) => normalized = arg)

\* C3: is_swear_word(token) is true exactly when the normalized token contains
\* at least one fragment of the lexicon as a contiguous substring; with an
\* empty lexicon it is false for every token.
C3_SubstringMatch ==
    (op = "is_swear_word" /\ IsLexicon(swear_words)) =>
        /\ ~verdict.raised
        /\ verdict.value <=>
               \E i \in 1..Len(swear_words.items) :
                   \E j \in 1..(Len(normalize_text(arg)) + 1) :
                       \E k \in (j - 1)..Len(normalize_text(arg)) :
                           SubSeq(normalize_text(arg), j, k) = swear_words.items[i].str

\* a token that holds the second fragment of the lexicon, not the first, with
\* another character in front of it
C3_Witness ==
    /\ op = "is_swear_word"
    /\ IsLexicon(swear_words)
    /\ Len(swear_words.items) = 2
    /\ verdict.value
    /\ swear_words.items[2].str # <<>>
    /\ Len(arg) > Len(swear_words.items[2].str)
    /\ arg[1] # swear_words.items[2].str[1]
    /\ \A j \in 1..(Len(arg) + 1) : \A k \in (j - 1)..Len(arg) :
           SubSeq(arg, j, k) # swear_words.items[1].str

\* C4: a call that returns splits the tokens of the normalized document in
\* two: some set of positions makes up the detected list, the other positions
\* make up the cleaned text, both in the order of the document, and the two
\* counts add up to the number of tokens.
C4_TokenPartition ==
    (Removed /\ ~result.raised) =>
        /\ \E D \in SUBSET (1..Len(DocTokens)) :
               /\ result.detected_swear_words = Pick(DocTokens, D, 1)
               /\ split(result.cleaned_text)
                      = Pick(DocTokens, (1..Len(DocTokens)) \ D, 1)
        /\ Len(split(result.cleaned_text)) + Len(result.detected_swear_words)
               = Len(DocTokens)

\* a document whose first token is kept and whose second token is detected
C4_Witness ==
    /\ Removed
    /\ ~result.raised
    /\ Len(DocTokens) = 2
    /\ result.detected_swear_words = <<DocTokens[2]>>
    /\ result.cleaned_text = DocTokens[1]

\* C5: the percentage of a call that returns is 100 * |detected| / |tokens|,
\* lies between 0 and 100, and is 0, with no division by zero, when the
\* document has no tokens.
C5_Percentage ==
    (Removed /\ ~result.raised) =>
        LET pct == result.swear_word_percentage IN
        /\ pct.den > 0
        /\ pct.num * Len(DocTokens)
               = 100 * Len(result.detected_swear_words) * pct.den
        /\ 0 <= pct.num
        /\ pct.num <= 100 * pct.den
        /\ (DocTokens = <<>> => pct.num = 0)

\* a document of whitespace only
C5_Witness ==
    /\ Removed
    /\ ~result.raised
    /\ arg # <<>>
    /\ DocTokens = <<>>
    /\ result.swear_word_percentage.num = 0

\* text is its own tokens joined by single spaces, with no long run
SingleSpaced(text) ==
    /\ ~HasLongRun(text)
    /\ \A i \in 1..Len(text) : text[i] # NL
    /\ text # <<>> => (text[1] # SP /\ text[Len(text)] # SP)
    /\ \A i \in 1..(Len(text) - 1) : ~(text[i] = SP /\ text[i + 1] = SP)

\* C6 as stated: with an empty lexicon the cleaned text is the input text
\* unchanged, the detected list is empty and the percentage is 0.
C6_Unchanged ==
    (Removed /\ swear_words = EmptyList) =>
        /\ ~result.raised
        /\ result.cleaned_text = arg
        /\ result.detected_swear_words = <<>>
        /\ result.swear_word_percentage.num = 0

\* C6 amended: with an empty lexicon the cleaned text is the tokens of the
\* normalized input joined by single spaces, which is the input itself when the
\* input has no run of three and is single-spaced; the detected list is empty
\* and the percentage is 0.
C6_EmptyLexiconPassThrough ==
    (Removed /\ swear_words = EmptyList) =>
        /\ ~result.raised
        /\ split(result.cleaned_text) = DocTokens
        /\ SingleSpaced(result.cleaned_text)
        /\ (SingleSpaced(arg) => result.cleaned_text = arg)
        /\ result.detected_swear_words = <<>>
        /\ result.swear_word_percentage.num = 0
        /\ result.swear_word_percentage.den > 0

\* two tokens with one space between them passed through an empty lexicon
C6_Witness ==
    /\ Removed
    /\ swear_words = EmptyList
    /\ Len(DocTokens) = 2
    /\ result.cleaned_text = arg

\* C7: for a file that is missing, unreadable, wrongly encoded or malformed,
\* and for a document without the "swear_words" field, load_swear_words
\* raises nothing and returns the empty list, and a call made afterwards
\* detects nothing.
C7_FailOpen ==
    (file.kind # "json" \/ ~file.has_field) =>
        /\ load_error = "none"
        /\ swear_words = EmptyList
        /\ op = "is_swear_word" => verdict = Returned(FALSE)
        /\ Removed =>
               /\ ~result.raised
               /\ result.detected_swear_words = <<>>
               /\ result.swear_word_percentage.num = 0

\* a document with tokens redacted after a malformed file was loaded
C7_Witness ==
    /\ file.kind = "malformed"
    /\ Removed
    /\ DocTokens # <<>>
    /\ result.cleaned_text # <<>>

\* C8: whatever load_swear_words returned, remove_persian_swear_words
\* returns a result and raises nothing.
C8_Total == Removed => ~result.raised

\* C9: a call leaves the lexicon as it was loaded, and its result is the
\* redaction of its own document under that lexicon, whatever calls came
\* before.
C9_Frame ==
    /\ swear_words = load_swear_words(file).value
    /\ Removed => result = remove_persian_swear_words(load_swear_words(file).value, arg)

\* a later call on an instance whose lexicon has fragments, detecting one
C9_Witness ==
    /\ calls = MaxCalls
    /\ Removed
    /\ ~result.raised
    /\ result.detected_swear_words # <<>>

\* C10: with a lexicon of non-empty fragments, the cleaned text holds no
\* fragment of the lexicon as a contiguous substring.
C10_CleanedHasNoFragment ==
    (/\ Removed
     /\ IsLexicon(swear_words)
     /\ \A i \in 1..Len(swear_words.items) : swear_words.items[i].str # <<>>) =>
        /\ ~result.raised
        /\ \A i \in 1..Len(swear_words.items) :
               ~Contains(result.cleaned_text, swear_words.items[i].str)

====
